---- MODULE Spec2Model ----
(***************************************************************************)
(* append-only-bytes: an append-only byte buffer (AppendOnlyBytes) whose   *)
(* committed bytes are shared through reference-counted, immutable views   *)
(* (BytesSlice) over fixed-capacity storage blocks (Arc<RawBytes>).        *)
(***************************************************************************)
EXTENDS Integers, Sequences, FiniteSets, TLC

\* ------------------------------------------------------------------ bounds
\* Width in bits of the modelled usize (the crate's usize is 64 bits wide).
WordBits == 8
\* Largest number of bytes a buffer is pushed to.
MaxLen == 3
\* Byte values are 0..MaxByte.
MaxByte == 1
\* Buffers constructed over a run (new, with_capacity, clone).
MaxBufs == 2
\* Slice handles alive at one time.
MaxSlices == 2
\* Storage blocks allocated at one time.
MaxBlocks == 3
\* Calls made over a run.
MaxCalls == 4
\* Pushes of the writer thread, and rounds of the reader thread's loop.
MaxPushes == 2
MaxRounds == 2

\* lib.rs:116
MIN_CAPACITY == 32

VARIABLES
    overflow_checks, \* the build: TRUE panics on integer overflow, FALSE wraps
    blocks,          \* the heap: block id -> Arc<RawBytes> allocation
    bufs,            \* buffer id -> AppendOnlyBytes
    slices,          \* slot -> BytesSlice
    last,            \* the last call and its outcome
    ncalls,          \* the number of calls made so far
    th               \* the positions of the writer and reader threads

vars == <<overflow_checks, blocks, bufs, slices, last, ncalls, th>>

\* ----------------------------------------------------------------- helpers
RECURSIVE Pow2(_)
Pow2(n) == IF n = 0 THEN 1 ELSE 2 * Pow2(n - 1)

\* usize: values 0 .. usize::MAX
Word == Pow2(WordBits)
USIZE_MAX == Word - 1
\* isize::MAX, the largest capacity Vec::with_capacity accepts
ISIZE_MAX == Pow2(WordBits - 1) - 1

Bytes == 0 .. MaxByte
\* The value of a byte that was never written.
Uninit == -1

Max(a, b) == IF a >= b THEN a ELSE b
MinOf(S) == CHOOSE x \in S : \A y \in S : x <= y

\* All byte strings of length lo..hi.
ByteSeqs(lo, hi) == UNION {[1 .. n -> Bytes] : n \in lo .. hi}

BlockIds == 1 .. MaxBlocks
BufIds == 1 .. MaxBufs
SliceIds == 1 .. MaxSlices

\* ------------------------------------------------------------ storage block
\* A block id that holds no allocation.
NoBlock == [live |-> FALSE, cap |-> 0, mem |-> <<>>, rc |-> 0, committed |-> 0]

FreeBlocks(blks) == {b \in BlockIds : ~blks[b].live}

\* Arc::new(RawBytes::with_capacity(capacity)): a fresh allocation of
\* `capacity` uninitialized bytes with strong count 1, at address `b`.
ArcNew(blks, b, capacity) ==
    [blks EXCEPT ![b] = [live |-> TRUE, cap |-> capacity, mem |-> <<>>,
                         rc |-> 1, committed |-> 0]]

\* Vec::with_capacity panics ("capacity overflow") above isize::MAX bytes.
AllocOk(capacity) == capacity <= ISIZE_MAX

\* Arc::clone: one more strong reference.
ArcClone(blks, b) == [blks EXCEPT ![b].rc = @ + 1]

\* Drop of RawBytes: the memory goes back to the allocator.
RawBytesDrop(blks, b) == [blks EXCEPT ![b] = NoBlock]

\* Drop of one Arc<RawBytes>: the strong count falls by one and the last
\* reference drops the RawBytes.
ArcDrop(blks, b) ==
    IF blks[b].rc - 1 = 0
    THEN RawBytesDrop(blks, b)
    ELSE [blks EXCEPT ![b].rc = @ - 1]

\* ptr::copy_nonoverlapping(src, raw.ptr().add(off), n) / ptr::write:
\* the bytes `bs` land at offsets off .. off+Len(bs)-1 of the block.
WriteAt(mem, off, bs) ==
    [i \in 1 .. Max(Len(mem), off + Len(bs)) |->
        IF i > off /\ i <= off + Len(bs) THEN bs[i - off]
        ELSE IF i <= Len(mem) THEN mem[i]
        ELSE Uninit]

CopyInto(blks, b, off, bs) == [blks EXCEPT ![b].mem = WriteAt(@, off, bs)]

\* The bytes at offsets start .. end-1 of a block, as a read sees them.
ReadAt(blk, start, end) ==
    [i \in 1 .. (end - start) |->
        IF blk.live /\ start + i <= Len(blk.mem) THEN blk.mem[start + i]
        ELSE Uninit]

\* ------------------------------------------------------------- get_range
\* A std::ops::Bound<usize>: Included(v), Excluded(v) or Unbounded.
Inc(v) == [k |-> "Included", v |-> v]
Exc(v) == [k |-> "Excluded", v |-> v]
Unb == [k |-> "Unbounded", v |-> 0]

\* v + 1 on usize: overflow panics under overflow checks and wraps without.
AddOne(v) ==
    IF v + 1 > USIZE_MAX
    THEN [ovf |-> TRUE, v |-> (v + 1) % Word]
    ELSE [ovf |-> FALSE, v |-> v + 1]

\* get_range(range, max_len): the (start, end) the range resolves to, or a
\* panic from an overflow check or from one of the two assertions.
get_range(range, max_len) ==
    LET s == CASE range.s.k = "Included" -> [ovf |-> FALSE, v |-> range.s.v]
               [] range.s.k = "Excluded" -> AddOne(range.s.v)
               [] OTHER -> [ovf |-> FALSE, v |-> 0]
        e == CASE range.e.k = "Included" -> AddOne(range.e.v)
               [] range.e.k = "Excluded" -> [ovf |-> FALSE, v |-> range.e.v]
               [] OTHER -> [ovf |-> FALSE, v |-> max_len]
    IN  IF (s.ovf \/ e.ovf) /\ overflow_checks
        THEN [res |-> "panic", start |-> 0, end |-> 0]
        ELSE IF ~(s.v <= e.v) THEN [res |-> "panic", start |-> 0, end |-> 0]
        ELSE IF ~(e.v <= max_len) THEN [res |-> "panic", start |-> 0, end |-> 0]
        ELSE [res |-> "ok", start |-> s.v, end |-> e.v]

\* RawBytes::slice(range): get_range against the block's capacity, then the
\* bytes of the block at start .. end-1.
RawBytes_slice(blk, range) ==
    LET g == get_range(range, blk.cap)
    IN  IF g.res = "ok"
        THEN [res |-> "ok", bytes |-> ReadAt(blk, g.start, g.end)]
        ELSE [res |-> "panic", bytes |-> <<>>]

\* ------------------------------------------------------------ append buffer
NoBuf == [st |-> "none", raw |-> 0, len |-> 0, hist |-> <<>>, gen |-> 0]
GoneBuf == [NoBuf EXCEPT !.st = "gone"]

LiveBufs == {i \in BufIds : bufs[i].st = "live"}
FreshBufs == {i \in BufIds : bufs[i].st = "none"}

\* AppendOnlyBytes::capacity
capacity(buf) == blocks[buf.raw].cap

\* AppendOnlyBytes::as_bytes: raw.slice(..len)
as_bytes(buf) == RawBytes_slice(blocks[buf.raw], [s |-> Unb, e |-> Exc(buf.len)])

\* The block of a buffer has seen the buffer's committed length.
Commit(blks, buf) ==
    [blks EXCEPT ![buf.raw].committed = Max(@, buf.len)]

\* A reserve that doubles once where the code loops.
GrowLoopOnce(new_capacity, target_capacity) ==
    IF ~(new_capacity < target_capacity)
    THEN [res |-> "ok", cap |-> new_capacity]
    ELSE IF new_capacity * 2 > USIZE_MAX /\ overflow_checks
    THEN [res |-> "panic", cap |-> 0]
    ELSE [res |-> "ok", cap |-> (new_capacity * 2) % Word]

\* The doubling loop of reserve: new_capacity *= 2 while it is below the
\* target. Under overflow checks an overflowing doubling panics; without,
\* it wraps, and a new_capacity of 0 never leaves the loop.
RECURSIVE GrowLoop(_, _)
GrowLoop(new_capacity, target_capacity) ==
    IF ~(new_capacity < target_capacity)
    THEN [res |-> "ok", cap |-> new_capacity]
    ELSE IF new_capacity * 2 > USIZE_MAX /\ overflow_checks
    THEN [res |-> "panic", cap |-> 0]
    ELSE IF (new_capacity * 2) % Word = new_capacity
    THEN [res |-> "hang", cap |-> 0]
    ELSE GrowLoop((new_capacity * 2) % Word, target_capacity)

\* A reserve that lets the target pass the capacity by one before it grows.
ReservePlanLax(len, cap, size) ==
    IF len + size > USIZE_MAX /\ overflow_checks
    THEN [res |-> "panic", cap |-> cap]
    ELSE LET target_capacity == (len + size) % Word
         IN  IF ~(target_capacity > cap + 1)
             THEN [res |-> "noop", cap |-> cap]
             ELSE IF cap * 2 > USIZE_MAX /\ overflow_checks
             THEN [res |-> "panic", cap |-> cap]
             ELSE LET g == GrowLoop(Max((cap * 2) % Word, MIN_CAPACITY),
                                    target_capacity)
                  IN  IF g.res # "ok" THEN [res |-> g.res, cap |-> cap]
                      ELSE IF ~AllocOk(g.cap) THEN [res |-> "panic", cap |-> cap]
                      ELSE [res |-> "grow", cap |-> g.cap]

\* A reserve that grows as soon as the target reaches the capacity.
ReservePlanEager(len, cap, size) ==
    IF len + size > USIZE_MAX /\ overflow_checks
    THEN [res |-> "panic", cap |-> cap]
    ELSE LET target_capacity == (len + size) % Word
         IN  IF ~(target_capacity >= cap)
             THEN [res |-> "noop", cap |-> cap]
             ELSE IF cap * 2 > USIZE_MAX /\ overflow_checks
             THEN [res |-> "panic", cap |-> cap]
             ELSE LET g == GrowLoop(Max((cap * 2) % Word, MIN_CAPACITY),
                                    target_capacity)
                  IN  IF g.res # "ok" THEN [res |-> g.res, cap |-> cap]
                      ELSE IF ~AllocOk(g.cap) THEN [res |-> "panic", cap |-> cap]
                      ELSE [res |-> "grow", cap |-> g.cap]

\* What reserve(size) decides for a buffer of length len and capacity cap:
\* "noop", "grow" to a new capacity, "panic" or "hang".
ReservePlan(len, cap, size) ==
    IF len + size > USIZE_MAX /\ overflow_checks
    THEN [res |-> "panic", cap |-> cap]
    ELSE LET target_capacity == (len + size) % Word
         IN  IF ~(target_capacity > cap)
             THEN [res |-> "noop", cap |-> cap]
             ELSE IF cap * 2 > USIZE_MAX /\ overflow_checks
             THEN [res |-> "panic", cap |-> cap]
             ELSE LET g == GrowLoop(Max((cap * 2) % Word, MIN_CAPACITY),
                                    target_capacity)
                  IN  IF g.res # "ok" THEN [res |-> g.res, cap |-> cap]
                      ELSE IF ~AllocOk(g.cap) THEN [res |-> "panic", cap |-> cap]
                      ELSE [res |-> "grow", cap |-> g.cap]

\* A growth step that copies one committed byte too few.
CopiedLenShort(buf) == IF buf.len > 0 THEN buf.len - 1 ELSE 0

\* The number of bytes growth copies from the old block: src.len().
CopiedLen(buf) == buf.len

\* A growth step that frees the old block although slices still hold it (a
\* reallocation in place of a new reference-counted block).
GrowBlocksFreeOld(blks, buf, nb, new_capacity) ==
    LET b1 == ArcNew(blks, nb, new_capacity)
        b2 == CopyInto(b1, nb, 0, ReadAt(b1[buf.raw], 0, buf.len))
    IN  RawBytesDrop(b2, buf.raw)

\* The growth step of reserve: a new block of the new capacity, the len
\* committed bytes copied to its offset 0, the buffer repointed, and the
\* buffer's reference to the old block dropped.
GrowBlocks(blks, buf, nb, new_capacity) ==
    LET b1 == ArcNew(blks, nb, new_capacity)
        b2 == CopyInto(b1, nb, 0, ReadAt(b1[buf.raw], 0, CopiedLen(buf)))
    IN  ArcDrop(b2, buf.raw)

GrowBuf(buf, nb) == [buf EXCEPT !.raw = nb, !.gen = @ + 1]

\* reserve, as a function of the heap and the buffer: the outcome, the heap
\* and the buffer after it.
reserve(blks, buf, size) ==
    LET p == ReservePlan(buf.len, blks[buf.raw].cap, size)
    IN  IF p.res = "grow"
        THEN LET nb == MinOf(FreeBlocks(blks))
                 nbuf == GrowBuf(buf, nb)
             IN  [res |-> "ok", grew |-> TRUE,
                  blks |-> Commit(GrowBlocks(blks, buf, nb, p.cap), nbuf),
                  buf |-> nbuf]
        ELSE [res |-> IF p.res = "noop" THEN "ok" ELSE p.res, grew |-> FALSE,
              blks |-> blks, buf |-> buf]

\* Whether reserve finds a free address for the block it may allocate.
CanReserve(blks, buf, size) ==
    ReservePlan(buf.len, blks[buf.raw].cap, size).res = "grow"
        => FreeBlocks(blks) # {}

\* A write that lands on the last committed byte instead of after it.
WriteOffsetOnLast(buf) == IF buf.len > 0 THEN buf.len - 1 ELSE 0

\* The write of push_slice / push: the bytes land at offset len, then len
\* grows by their number.
WriteOffset(buf) == buf.len

AppendBlocks(blks, buf, bs) == CopyInto(blks, buf.raw, WriteOffset(buf), bs)

AppendBuf(buf, bs) ==
    [buf EXCEPT !.len = @ + Len(bs), !.hist = @ \o bs]

\* push_slice, as a function of the heap and the buffer.
push_slice(blks, buf, bs) ==
    LET r == reserve(blks, buf, Len(bs))
    IN  IF r.res # "ok" THEN r
        ELSE LET nbuf == AppendBuf(r.buf, bs)
             IN  [r EXCEPT !.blks = Commit(AppendBlocks(r.blks, r.buf, bs), nbuf),
                           !.buf = nbuf]

\* ------------------------------------------------------------- shared slice
NoSlice == [live |-> FALSE, raw |-> 0, start |-> 0, end |-> 0,
            snap |-> <<>>, obuf |-> 0, ogen |-> 0]

LiveSlices == {j \in SliceIds : slices[j].live}
FreeSlots == {j \in SliceIds : ~slices[j].live}

\* BytesSlice::new(raw, start, end). snap, obuf and ogen are history: the
\* content the slice had when minted, and the buffer and the growth
\* generation of the buffer it was minted from.
BytesSlice_new(raw, start, end, snap, obuf, ogen) ==
    [live |-> TRUE, raw |-> raw, start |-> start, end |-> end,
     snap |-> snap, obuf |-> obuf, ogen |-> ogen]

\* BytesSlice::as_bytes / bytes / deref: raw.slice(start..end)
slice_bytes(blks, s) ==
    RawBytes_slice(blks[s.raw], [s |-> Inc(s.start), e |-> Exc(s.end)])

\* BytesSlice::len
slice_len(s) == s.end - s.start

\* BytesSlice::ptr_eq: Arc::ptr_eq, the two handles hold the same allocation.
ptr_eq(s, other) == s.raw = other.raw

\* A can_merge that looks at the offsets only.
CanMergeAdjacentOnly(s, other) == s.end = other.start

\* BytesSlice::can_merge
can_merge(s, other) == ptr_eq(s, other) /\ s.end = other.start

\* An equality that compares the handles: the block and the offsets.
EqByIdentity(blks, s, other) ==
    ptr_eq(s, other) /\ s.start = other.start /\ s.end = other.end

\* PartialEq for BytesSlice: self.as_bytes() == other.as_bytes()
eq(blks, s, other) == slice_bytes(blks, s).bytes = slice_bytes(blks, other).bytes

\* The range a call was given, as the integers it denotes (no wrapping):
\* used to record what was asked, never by the code.
MathStart(range) ==
    CASE range.s.k = "Included" -> range.s.v
      [] range.s.k = "Excluded" -> range.s.v + 1
      [] OTHER -> 0
MathEnd(range, max_len) ==
    CASE range.e.k = "Included" -> range.e.v + 1
      [] range.e.k = "Excluded" -> range.e.v
      [] OTHER -> max_len
MathValid(range, max_len) ==
    /\ MathStart(range) <= MathEnd(range, max_len)
    /\ MathEnd(range, max_len) <= max_len

\* AppendOnlyBytes::slice_str(range): get_range against len, then
\* raw.slice(start..end) (the UTF-8 decoding of the bytes is not modelled).
buf_slice_str(blks, buf, range) ==
    LET g == get_range(range, buf.len)
    IN  IF g.res = "ok"
        THEN RawBytes_slice(blks[buf.raw], [s |-> Inc(g.start), e |-> Exc(g.end)])
        ELSE [res |-> "panic", bytes |-> <<>>]

\* Index for AppendOnlyBytes: the standard slice indexing of
\* raw.slice(..len), which panics on every range that is not within the
\* slice, the ranges whose end bound overflows included.
buf_index(blks, buf, range) ==
    LET whole == RawBytes_slice(blks[buf.raw], [s |-> Unb, e |-> Exc(buf.len)])
    IN  IF whole.res = "ok" /\ MathValid(range, Len(whole.bytes))
        THEN [res |-> "ok",
              bytes |-> SubSeq(whole.bytes, MathStart(range) + 1,
                               MathEnd(range, Len(whole.bytes)))]
        ELSE [res |-> "panic", bytes |-> <<>>]

\* BytesSlice::slice_str(range): get_range against len(), then
\* &self.deref()[start..end].
slice_slice_str(blks, s, range) ==
    LET g == get_range(range, slice_len(s))
        whole == slice_bytes(blks, s)
    IN  IF g.res = "ok" /\ whole.res = "ok" /\ g.end <= Len(whole.bytes)
        THEN [res |-> "ok", bytes |-> SubSeq(whole.bytes, g.start + 1, g.end)]
        ELSE [res |-> "panic", bytes |-> <<>>]

\* ------------------------------------------------------------ the last call
\* The name of the last call and how it ended: "ok", "err" (a returned
\* error), "panic" or "hang" (it never returns).
\* grew: the call allocated a new block for the buffer (a growth step).
NoCall == [op |-> "none", res |-> "ok", grew |-> FALSE]

Call(op, res) == [op |-> op, res |-> res, grew |-> FALSE]

\* ------------------------------------------------------------------- inputs
\* Capacities given to with_capacity.
Caps == {1, ISIZE_MAX + 1}
\* Sizes given to reserve.
ReserveSizes == {0, 1, MIN_CAPACITY + 1, ISIZE_MAX + 1, USIZE_MAX}
\* Byte strings given to from_bytes.
FromBytesInputs == {<<>>, <<0, 1>>}
\* Positions given in ranges.
Positions == (0 .. MaxLen + 1) \cup {USIZE_MAX}
StartBounds == {Unb, Exc(0), Exc(USIZE_MAX)} \cup {Inc(v) : v \in Positions}
EndBounds == {Unb, Inc(0), Inc(USIZE_MAX)} \cup {Exc(v) : v \in Positions}
Ranges == {[s |-> sb, e |-> eb] : sb \in StartBounds, eb \in EndBounds}

\* --------------------------------------------------------------------- Init
ThreadsIdle == [wpc |-> "idle", rpc |-> "idle"]

\* A constructor that never allocates less than MIN_CAPACITY.
WithCapacityFloored(blks, nb, n) == ArcNew(blks, nb, Max(n, MIN_CAPACITY))

\* AppendOnlyBytes::with_capacity(capacity): Arc::new(RawBytes::
\* with_capacity(capacity)) at address nb, and a buffer of len 0 on it.
with_capacity_blocks(blks, nb, n) == ArcNew(blks, nb, n)

with_capacity_buf(nb) == [NoBuf EXCEPT !.st = "live", !.raw = nb]

\* The program has constructed its first buffer, with new() or with
\* with_capacity(n), and holds nothing else.
InitWith(op, n) ==
    /\ overflow_checks \in BOOLEAN
    /\ blocks = with_capacity_blocks([b \in BlockIds |-> NoBlock], 1, n)
    /\ bufs = [i \in BufIds |-> IF i = 1 THEN with_capacity_buf(1) ELSE NoBuf]
    /\ slices = [j \in SliceIds |-> NoSlice]
    /\ last = Call(op, "ok")
    /\ ncalls = 0
    /\ th = ThreadsIdle

Init ==
    \/ InitWith("new", 0)
    \/ \E n \in {c \in Caps : AllocOk(c)} : InitWith("with_capacity", n)

\* ------------------------------------------------------- buffer operations
\* AppendOnlyBytes::with_capacity(n): a new buffer of length 0 on a fresh
\* block of capacity n (or the panic of the allocation).
WithCapacityAs(op, n) ==
    /\ FreshBufs # {}
    /\ FreeBlocks(blocks) # {}
    /\ LET i == MinOf(FreshBufs)
           nb == MinOf(FreeBlocks(blocks))
       IN  IF AllocOk(n)
           THEN /\ blocks' = with_capacity_blocks(blocks, nb, n)
                /\ bufs' = [bufs EXCEPT ![i] = with_capacity_buf(nb)]
                /\ last' = Call(op, "ok")
           ELSE /\ last' = Call(op, "panic")
                /\ UNCHANGED <<blocks, bufs>>
    /\ UNCHANGED <<overflow_checks, slices, th>>

WithCapacity(n) == WithCapacityAs("with_capacity", n)

\* AppendOnlyBytes::new(): with_capacity(0)
New == WithCapacityAs("new", 0)

\* push, as a function of the heap and the buffer: reserve(1), the byte
\* written at offset len, len += 1.
push(blks, buf, byte) ==
    LET r == reserve(blks, buf, 1)
    IN  IF r.res # "ok" THEN r
        ELSE LET nbuf == AppendBuf(r.buf, <<byte>>)
             IN  [r EXCEPT !.blks = Commit(AppendBlocks(r.blks, r.buf, <<byte>>), nbuf),
                           !.buf = nbuf]

\* The effect of a call that went through reserve on buffer i.
Apply(op, i, r) ==
    /\ last' = [Call(op, r.res) EXCEPT !.grew = r.grew]
    /\ blocks' = r.blks
    /\ bufs' = [bufs EXCEPT ![i] = r.buf]
    /\ UNCHANGED <<overflow_checks, slices, th>>

\* AppendOnlyBytes::push_slice(slice) (push_str(s) is push_slice(s.as_bytes()))
PushSlice(i, bs) ==
    /\ i \in LiveBufs
    /\ bufs[i].len + Len(bs) <= MaxLen
    /\ CanReserve(blocks, bufs[i], Len(bs))
    /\ Apply("push_slice", i, push_slice(blocks, bufs[i], bs))

\* AppendOnlyBytes::push(byte)
Push(i, byte) ==
    /\ i \in LiveBufs
    /\ bufs[i].len + 1 <= MaxLen
    /\ CanReserve(blocks, bufs[i], 1)
    /\ Apply("push", i, push(blocks, bufs[i], byte))

\* AppendOnlyBytes::reserve(size)
Reserve(i, size) ==
    /\ i \in LiveBufs
    /\ CanReserve(blocks, bufs[i], size)
    /\ Apply("reserve", i, reserve(blocks, bufs[i], size))

\* Clone for AppendOnlyBytes: a new block of the same capacity, the len
\* committed bytes copied into it, a new buffer of the same length on it.
CloneBlocks(blks, buf, nb) ==
    CopyInto(ArcNew(blks, nb, blks[buf.raw].cap), nb, 0,
             ReadAt(blks[buf.raw], 0, buf.len))

\* A clone that shares the buffer's block, as a derived Clone would.
CloneRawShared(buf, nb) == buf.raw

\* raw: Arc::new(new), the clone's own block.
CloneRaw(buf, nb) == nb

CloneBuf(i) ==
    /\ i \in LiveBufs
    /\ FreshBufs # {}
    /\ FreeBlocks(blocks) # {}
    /\ LET j == MinOf(FreshBufs)
           nb == MinOf(FreeBlocks(blocks))
           nbuf == [bufs[i] EXCEPT !.raw = CloneRaw(bufs[i], nb), !.gen = 0]
       IN  /\ blocks' = Commit(CloneBlocks(blocks, bufs[i], nb), nbuf)
           /\ bufs' = [bufs EXCEPT ![j] = nbuf]
           /\ last' = Call("clone", "ok")
    /\ UNCHANGED <<overflow_checks, slices, th>>

\* The slice a call puts in slot j of the caller.
Mint(j, s) == [slices EXCEPT ![j] = s]

\* AppendOnlyBytes::slice(range): get_range against len, then a slice over
\* a clone of the Arc of the current block.
SliceBound(buf) == buf.len

\* A slice that takes the buffer's reference without counting it.
SliceRefUncounted(blks, raw) == blks

\* self.raw.clone() in slice(): the slice holds its own counted reference.
SliceRef(blks, raw) == ArcClone(blks, raw)

Slice(i, range) ==
    /\ i \in LiveBufs
    /\ FreeSlots # {}
    /\ LET j == MinOf(FreeSlots)
           buf == bufs[i]
           g == get_range(range, SliceBound(buf))
       IN  IF g.res = "ok"
           THEN /\ blocks' = SliceRef(blocks, buf.raw)
                /\ slices' = Mint(j, BytesSlice_new(buf.raw, g.start, g.end,
                                   SubSeq(as_bytes(buf).bytes, g.start + 1, g.end),
                                   i, buf.gen))
                /\ last' = Call("slice", "ok")
           ELSE /\ last' = Call("slice", "panic")
                /\ UNCHANGED <<blocks, slices>>
    /\ UNCHANGED <<overflow_checks, bufs, th>>

\* A to_slice that copies the committed bytes to a block of their length
\* and drops the buffer.
ToSliceCopying(i) ==
    /\ i \in LiveBufs
    /\ FreeSlots # {}
    /\ FreeBlocks(blocks) # {}
    /\ LET j == MinOf(FreeSlots)
           nb == MinOf(FreeBlocks(blocks))
           buf == bufs[i]
           bs == as_bytes(buf).bytes
       IN  /\ blocks' = ArcDrop([CopyInto(ArcNew(blocks, nb, Len(bs)), nb, 0, bs)
                                    EXCEPT ![nb].committed = Len(bs)], buf.raw)
           /\ slices' = Mint(j, BytesSlice_new(nb, 0, buf.len, bs, i, buf.gen))
           /\ bufs' = [bufs EXCEPT ![i] = GoneBuf]
           /\ last' = Call("to_slice", "ok")
    /\ UNCHANGED <<overflow_checks, th>>

\* AppendOnlyBytes::to_slice(self): the buffer's Arc moves into a slice over
\* 0 .. len.
ToSlice(i) ==
    /\ i \in LiveBufs
    /\ FreeSlots # {}
    /\ LET j == MinOf(FreeSlots)
           buf == bufs[i]
       IN  /\ slices' = Mint(j, BytesSlice_new(buf.raw, 0, buf.len,
                                as_bytes(buf).bytes, i, buf.gen))
           /\ bufs' = [bufs EXCEPT ![i] = GoneBuf]
           /\ last' = Call("to_slice", "ok")
    /\ UNCHANGED <<overflow_checks, blocks, th>>

\* Drop of an AppendOnlyBytes: its Arc is dropped.
DropBuf(i) ==
    /\ i \in LiveBufs
    /\ blocks' = ArcDrop(blocks, bufs[i].raw)
    /\ bufs' = [bufs EXCEPT ![i] = GoneBuf]
    /\ last' = Call("drop_buf", "ok")
    /\ UNCHANGED <<overflow_checks, slices, th>>

\* ---------------------------------------------------------- slice operations
\* Drop of a BytesSlice: its Arc is dropped.
DropSlice(j) ==
    /\ j \in LiveSlices
    /\ blocks' = ArcDrop(blocks, slices[j].raw)
    /\ slices' = [slices EXCEPT ![j] = NoSlice]
    /\ last' = Call("drop_slice", "ok")
    /\ UNCHANGED <<overflow_checks, bufs, th>>

\* A slice_clone that takes the range as offsets of the block, not of self.
SliceCloneUntranslated(s, g) ==
    BytesSlice_new(s.raw, g.start, g.end,
                   SubSeq(slice_bytes(blocks, s).bytes, g.start + 1, g.end),
                   s.obuf, s.ogen)

\* A slice_clone that offsets the end of the range by self.end.
SliceCloneEndFromEnd(s, g) ==
    BytesSlice_new(s.raw, s.start + g.start, s.end + g.end,
                   SubSeq(slice_bytes(blocks, s).bytes, g.start + 1, g.end),
                   s.obuf, s.ogen)

\* BytesSlice::slice_clone(range): get_range against end - start, then a
\* slice over a clone of the Arc at self.start + start .. self.start + end.
SliceCloneOf(s, g) ==
    BytesSlice_new(s.raw, s.start + g.start, s.start + g.end,
                   SubSeq(slice_bytes(blocks, s).bytes, g.start + 1, g.end),
                   s.obuf, s.ogen)

SliceClone(j, range) ==
    /\ j \in LiveSlices
    /\ FreeSlots # {}
    /\ LET k == MinOf(FreeSlots)
           s == slices[j]
           g == get_range(range, s.end - s.start)
       IN  IF g.res = "ok"
           THEN /\ blocks' = ArcClone(blocks, s.raw)
                /\ slices' = Mint(k, SliceCloneOf(s, g))
                /\ last' = Call("slice_clone", "ok")
           ELSE /\ last' = Call("slice_clone", "panic")
                /\ UNCHANGED <<blocks, slices>>
    /\ UNCHANGED <<overflow_checks, bufs, th>>

\* A merge that sets self.end to other.start, which it already equals.
MergedNotExtended(s, other) ==
    [s EXCEPT !.end = other.start, !.snap = s.snap \o other.snap]

\* BytesSlice::try_merge(&mut self, other): on can_merge, self.end = other.end
\* and Ok(()); otherwise Err(MergeFailed).
Merged(s, other) == [s EXCEPT !.end = other.end, !.snap = s.snap \o other.snap]

TryMerge(j, k) ==
    /\ j \in LiveSlices
    /\ k \in LiveSlices
    /\ j # k
    /\ IF can_merge(slices[j], slices[k])
       THEN /\ slices' = [slices EXCEPT ![j] = Merged(slices[j], slices[k])]
            /\ last' = Call("try_merge", "ok")
       ELSE /\ last' = Call("try_merge", "err")
            /\ UNCHANGED slices
    /\ UNCHANGED <<overflow_checks, blocks, bufs, th>>

\* BytesSlice::from_bytes(bytes): a private block of capacity bytes.len()
\* holding a copy of the bytes, and a slice over 0 .. bytes.len().
FromBytesAs(op, bs) ==
    /\ FreeSlots # {}
    /\ FreeBlocks(blocks) # {}
    /\ LET j == MinOf(FreeSlots)
           nb == MinOf(FreeBlocks(blocks))
       IN  /\ blocks' = [CopyInto(ArcNew(blocks, nb, Len(bs)), nb, 0, bs)
                            EXCEPT ![nb].committed = Len(bs)]
           /\ slices' = Mint(j, BytesSlice_new(nb, 0, Len(bs), bs, 0, 0))
           /\ last' = Call(op, "ok")
    /\ UNCHANGED <<overflow_checks, bufs, th>>

FromBytes(bs) == FromBytesAs("from_bytes", bs)

\* ----------------------------------------------------------- specification
\* A call that never returns (the doubling loop on a new_capacity of 0)
\* leaves nothing to run after it.
Running == last.res # "hang"

\* One call of the program.
Step(call) ==
    /\ Running
    /\ ncalls < MaxCalls
    /\ call
    /\ ncalls' = ncalls + 1

Next ==
    \/ Step(New)
    \/ \E n \in Caps : Step(WithCapacity(n))
    \/ \E i \in BufIds, bs \in ByteSeqs(0, 2) : Step(PushSlice(i, bs))
    \/ \E i \in BufIds, byte \in Bytes : Step(Push(i, byte))
    \/ \E i \in BufIds, size \in ReserveSizes : Step(Reserve(i, size))
    \/ \E i \in BufIds : Step(CloneBuf(i))
    \/ \E i \in BufIds, range \in Ranges : Step(Slice(i, range))
    \/ \E i \in BufIds : Step(ToSlice(i))
    \/ \E i \in BufIds : Step(DropBuf(i))
    \/ \E j \in SliceIds : Step(DropSlice(j))
    \/ \E j \in SliceIds, range \in Ranges : Step(SliceClone(j, range))
    \/ \E j \in SliceIds, k \in SliceIds : Step(TryMerge(j, k))
    \/ \E bs \in FromBytesInputs : Step(FromBytes(bs))

Spec == Init /\ [][Next]_vars

\* ----------------------------------------------------------------- reserve
\* reserve and the pushes on one buffer, over every starting capacity class
\* (0, below 16, 16, between 16 and 32, 32, above) and the sizes around
\* every capacity the doubling passes through, up to the largest of the
\* word.
GrowthCaps == {1, 16, 17, 20, 31, 32, 33, 48, 90, ISIZE_MAX}
GrowthSizes ==
    (0 .. MIN_CAPACITY + 8)
        \cup (2 * MIN_CAPACITY - 1 .. 2 * MIN_CAPACITY + 1)
        \cup (ISIZE_MAX - 1 .. ISIZE_MAX + 2)
        \cup (USIZE_MAX - 3 .. USIZE_MAX)

InitReserve ==
    \/ InitWith("new", 0)
    \/ \E n \in {c \in GrowthCaps : AllocOk(c)} : InitWith("with_capacity", n)

NextReserve ==
    \/ \E size \in GrowthSizes : Step(Reserve(1, size))
    \/ \E bs \in ByteSeqs(0, 2) : Step(PushSlice(1, bs))
    \/ \E byte \in Bytes : Step(Push(1, byte))

SpecReserve == InitReserve /\ [][NextReserve]_vars

\* ------------------------------------------------------------------- serde
\* The crate built with the "serde" feature. Serialize hands the slice's
\* bytes to serializer.serialize_bytes; Deserialize asks a human-readable
\* deserializer for a sequence and any other for bytes, and builds the slice
\* with from_bytes. The two formats are those of test_serde::test:
\* serde_json, which writes bytes as the text of an array of numbers, and
\* postcard, which writes a varint length and then the bytes. A wire message
\* is a sequence of octets.

\* The ASCII text of a number in base ten.
RECURSIVE Dec(_)
Dec(n) == IF n < 10 THEN <<48 + n>> ELSE Dec(n \div 10) \o <<48 + (n % 10)>>

RECURSIVE JsonItems(_)
JsonItems(bs) ==
    IF bs = <<>> THEN <<>>
    ELSE IF Len(bs) = 1 THEN Dec(bs[1])
    ELSE Dec(bs[1]) \o <<44>> \o JsonItems(Tail(bs))

\* serde_json's serialize_bytes: "[b1,b2,...]"
JsonEncode(bs) == <<91>> \o JsonItems(bs) \o <<93>>

\* The items of an array text: digits accumulate into cur (-1: no digit
\* yet), a comma ends an item, an item above 255 is not a u8.
RECURSIVE JsonParseItems(_, _, _)
JsonParseItems(rest, acc, cur) ==
    IF rest = <<>>
    THEN IF cur < 0 \/ cur > 255 THEN [res |-> "err", bytes |-> <<>>]
         ELSE [res |-> "ok", bytes |-> Append(acc, cur)]
    ELSE LET c == Head(rest)
         IN  IF c >= 48 /\ c <= 57
             THEN JsonParseItems(Tail(rest), acc,
                                 (IF cur < 0 THEN 0 ELSE cur * 10) + (c - 48))
             ELSE IF c = 44 /\ cur >= 0 /\ cur <= 255
             THEN JsonParseItems(Tail(rest), Append(acc, cur), 0 - 1)
             ELSE [res |-> "err", bytes |-> <<>>]

\* serde_json's deserialize_seq into visit_seq: the Vec<u8> of the array.
JsonDecode(w) ==
    IF Len(w) < 2 \/ w[1] # 91 \/ w[Len(w)] # 93
    THEN [res |-> "err", bytes |-> <<>>]
    ELSE IF Len(w) = 2 THEN [res |-> "ok", bytes |-> <<>>]
    ELSE JsonParseItems(SubSeq(w, 2, Len(w) - 1), <<>>, 0 - 1)

\* A length as a varint: seven bits an octet, the low ones first, the top
\* bit set on all but the last.
RECURSIVE Varint(_)
Varint(n) == IF n < 128 THEN <<n>> ELSE <<128 + (n % 128)>> \o Varint(n \div 128)

\* postcard's serialize_bytes: the length, then the bytes.
PostcardEncode(bs) == Varint(Len(bs)) \o bs

RECURSIVE ReadVarint(_, _, _, _)
ReadVarint(w, i, mult, acc) ==
    IF i > Len(w) THEN [res |-> "err", v |-> 0, next |-> i]
    ELSE IF w[i] < 128 THEN [res |-> "ok", v |-> acc + w[i] * mult, next |-> i + 1]
    ELSE ReadVarint(w, i + 1, mult * 128, acc + (w[i] % 128) * mult)

\* postcard's deserialize_bytes into visit_borrowed_bytes: the length, then
\* that many octets of the input.
PostcardDecode(w) ==
    LET n == ReadVarint(w, 1, 1, 0)
    IN  IF n.res = "ok" /\ n.next + n.v - 1 <= Len(w)
        THEN [res |-> "ok", bytes |-> SubSeq(w, n.next, n.next + n.v - 1)]
        ELSE [res |-> "err", bytes |-> <<>>]

\* Serialize for BytesSlice: serializer.serialize_bytes(self.bytes())
serialize(blks, s, human_readable) ==
    IF human_readable THEN JsonEncode(slice_bytes(blks, s).bytes)
    ELSE PostcardEncode(slice_bytes(blks, s).bytes)

\* A deserialize that asks for bytes when human readable and for a sequence
\* when not.
VisitSwapped(human_readable, w) ==
    IF human_readable THEN PostcardDecode(w) ELSE JsonDecode(w)

\* Deserialize for BytesSlice: deserialize_seq when the deserializer is
\* human readable, deserialize_bytes otherwise; the visitor's bytes.
Visit(human_readable, w) ==
    IF human_readable THEN JsonDecode(w) ELSE PostcardDecode(w)

\* BytesSlice::deserialize: BytesSlice::from_bytes of the visitor's bytes,
\* or the deserializer's error.
Deserialize(human_readable, w) ==
    LET v == Visit(human_readable, w)
    IN  IF v.res = "ok"
        THEN FromBytesAs("deserialize", v.bytes)
        ELSE /\ last' = Call("deserialize", "err")
             /\ UNCHANGED <<overflow_checks, blocks, bufs, slices, th>>

\* Contents whose encodings are given to deserialize, byte strings given to
\* from_bytes, and a text that is not an array of u8: "[256]".
SerdeContents == {<<>>, <<1>>, <<0, 1>>, <<255, 10>>}
SerdeFromBytes == {<<255, 10>>}
Wires ==
    {JsonEncode(c) : c \in SerdeContents}
        \cup {PostcardEncode(c) : c \in SerdeContents}
        \cup {<<91, 50, 53, 54, 93>>}

NextSerde ==
    \/ Next
    \/ \E bs \in SerdeFromBytes : Step(FromBytes(bs))
    \/ \E human_readable \in BOOLEAN, w \in Wires :
          Step(Deserialize(human_readable, w))

SpecSerde == Init /\ [][NextSerde]_vars

\* --------------------------------------------------------------- threads
\* tests::threads: the main thread builds a buffer, pushes to it and takes
\* the slice b of all of it; then one thread owns the buffer and pushes,
\* while another reads b and, in a loop, slice_clones b, reads the clone and
\* drops it. A push is its steps: reserve (with its growth), one write per
\* byte at offset len, then the increment of len. A read is one step per
\* byte. The count operations of Arc are atomic.
\*   wpc, wbs, wk, wleft: the writer's position, the bytes it is pushing, how
\*     many of them it has written, the pushes left to it;
\*   rpc, rk, racc, rleft: the reader's position, how many bytes of the slice
\*     it has read, the bytes it read, the rounds left to it;
\*   overlap: the reader has read from a block while the writer was writing
\*     into that block.
WriterBuf == 1
SliceB == 1
SliceC == 2

InitThreads ==
    \E n \in {0, 1}, bs \in ByteSeqs(1, 2) :
        LET blks0 == with_capacity_blocks([b \in BlockIds |-> NoBlock], 1, n)
            r == push_slice(blks0, with_capacity_buf(1), bs)
            b == BytesSlice_new(r.buf.raw, 0, r.buf.len,
                                as_bytes(r.buf).bytes, WriterBuf, r.buf.gen)
        IN  /\ overflow_checks \in BOOLEAN
            /\ blocks = SliceRef(r.blks, r.buf.raw)
            /\ bufs = [i \in BufIds |-> IF i = WriterBuf THEN r.buf ELSE NoBuf]
            /\ slices = [j \in SliceIds |->
                            IF j = SliceB
                            THEN [b EXCEPT !.snap =
                                     RawBytes_slice(r.blks[r.buf.raw],
                                         [s |-> Unb, e |-> Exc(r.buf.len)]).bytes]
                            ELSE NoSlice]
            /\ last = Call("slice", "ok")
            /\ ncalls = 0
            /\ th = [wpc |-> "idle", wbs |-> <<>>, wk |-> 0, wleft |-> MaxPushes,
                     rpc |-> "read_b", rk |-> 0, racc |-> <<>>, rleft |-> MaxRounds,
                     overlap |-> FALSE]

\* The writer starts push_slice(bs).
W_Begin(bs) ==
    /\ th.wpc = "idle"
    /\ th.wleft > 0
    /\ bufs[WriterBuf].len + Len(bs) <= MaxLen
    /\ th' = [th EXCEPT !.wpc = "reserve", !.wbs = bs, !.wk = 0, !.wleft = @ - 1]
    /\ UNCHANGED <<overflow_checks, blocks, bufs, slices, last, ncalls>>

\* self.reserve(slice.len()), with its growth step.
W_Reserve ==
    /\ th.wpc = "reserve"
    /\ CanReserve(blocks, bufs[WriterBuf], Len(th.wbs))
    /\ LET r == reserve(blocks, bufs[WriterBuf], Len(th.wbs))
       IN  /\ blocks' = r.blks
           /\ bufs' = [bufs EXCEPT ![WriterBuf] = r.buf]
           /\ th' = [th EXCEPT !.wpc = IF r.res = "ok" THEN "write" ELSE "done"]
    /\ UNCHANGED <<overflow_checks, slices, last, ncalls>>

\* A writer that writes from the start of the block, not from offset len.
WriterTargetFromStart == <<bufs[WriterBuf].raw, th.wk>>

\* The block and offset of the writer's next byte.
WriterTarget == <<bufs[WriterBuf].raw, WriteOffset(bufs[WriterBuf]) + th.wk>>

\* copy_nonoverlapping, one byte of it: byte wk of the slice goes to offset
\* len + wk of the current block.
W_Write ==
    /\ th.wpc = "write"
    /\ th.wk < Len(th.wbs)
    /\ blocks' = CopyInto(blocks, WriterTarget[1], WriterTarget[2],
                          <<th.wbs[th.wk + 1]>>)
    /\ th' = [th EXCEPT !.wk = @ + 1]
    /\ UNCHANGED <<overflow_checks, bufs, slices, last, ncalls>>

\* self.len += slice.len()
W_Commit ==
    /\ th.wpc = "write"
    /\ th.wk = Len(th.wbs)
    /\ LET nbuf == AppendBuf(bufs[WriterBuf], th.wbs)
       IN  /\ bufs' = [bufs EXCEPT ![WriterBuf] = nbuf]
           /\ blocks' = Commit(blocks, nbuf)
    /\ th' = [th EXCEPT !.wpc = "idle", !.wbs = <<>>, !.wk = 0]
    /\ UNCHANGED <<overflow_checks, slices, last, ncalls>>

\* The writer has made its pushes.
W_Done ==
    /\ th.wpc = "idle"
    /\ th' = [th EXCEPT !.wpc = "done"]
    /\ UNCHANGED <<overflow_checks, blocks, bufs, slices, last, ncalls>>

\* The slice the reader is reading, and the block and offset of its next
\* byte.
ReaderSlice == IF th.rpc = "read_c" THEN slices[SliceC] ELSE slices[SliceB]
ReaderTarget == <<ReaderSlice.raw, ReaderSlice.start + th.rk>>

\* One byte of a read of b (b.deref()) or of the clone.
R_Read ==
    /\ th.rpc \in {"read_b", "read_c"}
    /\ th.rk < slice_len(ReaderSlice)
    /\ th' = [th EXCEPT
                 !.racc = @ \o ReadAt(blocks[ReaderTarget[1]],
                                      ReaderTarget[2], ReaderTarget[2] + 1),
                 !.rk = @ + 1,
                 !.overlap = @ \/ (th.wpc = "write" /\ th.wk > 0
                                    /\ WriterTarget[1] = ReaderTarget[1])]
    /\ UNCHANGED <<overflow_checks, blocks, bufs, slices, last, ncalls>>

\* The read is complete: the reader goes on to slice_clone, or to drop the
\* clone it has read.
R_ReadDone ==
    /\ th.rpc \in {"read_b", "read_c"}
    /\ th.rk = slice_len(ReaderSlice)
    /\ th' = [th EXCEPT !.rpc = IF th.rpc = "read_b" THEN "clone" ELSE "drop_c",
                        !.rk = 0, !.racc = <<>>]
    /\ UNCHANGED <<overflow_checks, blocks, bufs, slices, last, ncalls>>

\* let c = b.slice_clone(range)
R_Clone(range) ==
    /\ th.rpc = "clone"
    /\ th.rleft > 0
    /\ LET s == slices[SliceB]
           g == get_range(range, s.end - s.start)
       IN  /\ g.res = "ok"
           /\ blocks' = ArcClone(blocks, s.raw)
           /\ slices' = Mint(SliceC, SliceCloneOf(s, g))
    /\ th' = [th EXCEPT !.rpc = "read_c", !.rleft = @ - 1]
    /\ UNCHANGED <<overflow_checks, bufs, last, ncalls>>

\* The clone goes out of scope at the end of the loop body.
R_DropClone ==
    /\ th.rpc = "drop_c"
    /\ blocks' = ArcDrop(blocks, slices[SliceC].raw)
    /\ slices' = [slices EXCEPT ![SliceC] = NoSlice]
    /\ th' = [th EXCEPT !.rpc = "clone"]
    /\ UNCHANGED <<overflow_checks, bufs, last, ncalls>>

\* The reader's loop is over.
R_Done ==
    /\ th.rpc = "clone"
    /\ th.rleft = 0
    /\ th' = [th EXCEPT !.rpc = "done"]
    /\ UNCHANGED <<overflow_checks, blocks, bufs, slices, last, ncalls>>

\* Ranges the reader clones: within b, whose length is 1 or 2.
ReaderRanges ==
    {[s |-> Inc(0), e |-> Exc(1)], [s |-> Unb, e |-> Unb], [s |-> Inc(1), e |-> Unb]}

NextThreads ==
    \/ \E bs \in ByteSeqs(1, 2) : W_Begin(bs)
    \/ W_Reserve
    \/ W_Write
    \/ W_Commit
    \/ W_Done
    \/ R_Read
    \/ R_ReadDone
    \/ \E range \in ReaderRanges : R_Clone(range)
    \/ R_DropClone
    \/ R_Done

SpecThreads == InitThreads /\ [][NextThreads]_vars

\* ------------------------------------------------------------------ claims
\* The live handles (buffers and slices) that hold a reference to block b.
Holders(b) ==
    Cardinality({i \in LiveBufs : bufs[i].raw = b})
        + Cardinality({j \in LiveSlices : slices[j].raw = b})

\* The bytes a read of live slice j returns.
Content(j) == slice_bytes(blocks, slices[j])

\* C1. Write-once blocks: over every step, in every block that stays
\* allocated, every byte at an offset below the committed length the block
\* has seen keeps its value.
C1_WriteOnce ==
    [][\A b \in BlockIds :
          (blocks[b].live /\ blocks'[b].live) =>
              /\ Len(blocks'[b].mem) >= blocks[b].committed
              /\ blocks'[b].committed >= blocks[b].committed
              /\ \A i \in 1 .. blocks[b].committed :
                    blocks'[b].mem[i] = blocks[b].mem[i]]_vars

\* A push that did not grow has just written into a block that already
\* held two committed bytes.
C1_Witness ==
    /\ last.op \in {"push", "push_slice"}
    /\ last.res = "ok"
    /\ ~last.grew
    /\ \E i \in LiveBufs :
          /\ bufs[i].len = 3
          /\ bufs[i].gen = 1
          /\ blocks[bufs[i].raw].committed = 3
          /\ bufs[i].hist[1] # bufs[i].hist[3]

\* C2. Slice stability under growth: every live slice reads, byte for byte,
\* the content it had when it was minted, and has the length it had then,
\* whatever the buffer has pushed or reserved since.
C2_SliceStable ==
    \A j \in LiveSlices :
        /\ Content(j).res = "ok"
        /\ Content(j).bytes = slices[j].snap
        /\ slice_len(slices[j]) = Len(slices[j].snap)

\* A non-empty slice of a buffer that has since grown onto another block
\* and pushed past the slice's end.
C2_Witness ==
    \E j \in LiveSlices :
        /\ slices[j].obuf \in LiveBufs
        /\ slices[j].snap # <<>>
        /\ bufs[slices[j].obuf].gen > slices[j].ogen
        /\ bufs[slices[j].obuf].raw # slices[j].raw
        /\ bufs[slices[j].obuf].len > slices[j].end

\* C3. Append monotonicity: the length of every buffer is the number of
\* bytes pushed to it, and its as_bytes() is their concatenation in call
\* order, across growth steps.
C3_AppendMonotone ==
    \A i \in LiveBufs :
        /\ bufs[i].len = Len(bufs[i].hist)
        /\ as_bytes(bufs[i]).res = "ok"
        /\ as_bytes(bufs[i]).bytes = bufs[i].hist

\* A push has just grown a buffer that held committed bytes, and the buffer
\* holds two different byte values.
C3_Witness ==
    /\ last.op \in {"push", "push_slice"}
    /\ last.res = "ok"
    /\ last.grew
    /\ \E i \in LiveBufs :
          /\ bufs[i].len >= 2
          /\ bufs[i].gen >= 1
          /\ blocks[bufs[i].raw].cap = MIN_CAPACITY
          /\ bufs[i].hist[1] # bufs[i].hist[2]
          /\ Len(blocks[bufs[i].raw].mem) = bufs[i].len

\* C4. Block lifetime: a block is allocated exactly while some live buffer
\* or slice references it, its strong count is the number of those
\* handles, and no live handle references a deallocated block.
C4_Handles ==
    /\ \A b \in BlockIds :
          /\ blocks[b].live <=> Holders(b) > 0
          /\ blocks[b].rc = Holders(b)
    /\ \A i \in LiveBufs : blocks[bufs[i].raw].live
    /\ \A j \in LiveSlices : blocks[slices[j].raw].live

\* Over every step, a block is deallocated only by a step that drops a
\* handle (a drop, or a growth step leaving the old block) and that leaves
\* it no holder, so nothing is left to free it again.
C4_BlockLifetime ==
    /\ []C4_Handles
    /\ [][\A b \in BlockIds :
          (blocks[b].live /\ ~blocks'[b].live) =>
              /\ last'.op \in {"drop_buf", "drop_slice", "push", "push_slice", "reserve"}
              /\ \A i \in BufIds : bufs'[i].st = "live" => bufs'[i].raw # b
              /\ \A j \in SliceIds : slices'[j].live => slices'[j].raw # b]_vars

\* The buffer was dropped and a slice minted from it is still alive, on a
\* block that only slices hold.
C4_Witness ==
    /\ last.op = "drop_buf"
    /\ \E j \in LiveSlices :
          /\ slices[j].obuf # 0
          /\ bufs[slices[j].obuf].st = "gone"
          /\ slices[j].snap # <<>>
          /\ blocks[slices[j].raw].live

\* The bytes a read of slice s returns in the state after the step.
BytesAfter(s) == slice_bytes(blocks', s).bytes
BytesBefore(s) == slice_bytes(blocks, s).bytes

\* C6. Merge correctness: a.try_merge(b) returns Ok exactly when a and b
\* reference the same block and a.end = b.start; on Ok a keeps its block and
\* start, its end becomes b's end and its content is a's bytes followed by
\* b's; on Err a is as it was; b is as it was in both cases.
C6_MergeCorrect ==
    [][\A j \in SliceIds, k \in SliceIds :
          TryMerge(j, k) =>
              LET a == slices[j]
                  b == slices[k]
                  a2 == slices'[j]
                  same == a.raw = b.raw /\ a.end = b.start
              IN  /\ last'.res = IF same THEN "ok" ELSE "err"
                  /\ a2.raw = a.raw
                  /\ a2.start = a.start
                  /\ same => /\ a2.end = b.end
                             /\ BytesAfter(a2) = BytesBefore(a) \o BytesBefore(b)
                  /\ ~same => /\ a2.end = a.end
                              /\ BytesAfter(a2) = BytesBefore(a)
                  /\ slices'[k].raw = b.raw
                  /\ slices'[k].start = b.start
                  /\ slices'[k].end = b.end
                  /\ BytesAfter(slices'[k]) = BytesBefore(b)]_vars

\* A merge has just succeeded and the merged slice covers two different
\* byte values.
C6_Witness ==
    /\ last.op = "try_merge"
    /\ last.res = "ok"
    /\ \E j \in LiveSlices :
          /\ slice_len(slices[j]) = 2
          /\ Content(j).bytes[1] # Content(j).bytes[2]

\* C7. Mergeability versus growth: two slices minted from one buffer in
\* different growth generations reference different blocks and satisfy
\* neither ptr_eq nor can_merge, adjacent or not; two minted in the same
\* generation over adjacent ranges [x, y) and [y, z) satisfy can_merge, and
\* their merge reads the bytes [x, z) the buffer committed.
C7_MergeVsGrowth ==
    \A j \in LiveSlices, k \in LiveSlices :
        LET s == slices[j]
            t == slices[k]
        IN  (j # k /\ s.obuf # 0 /\ s.obuf = t.obuf) =>
              /\ s.ogen # t.ogen =>
                    /\ s.raw # t.raw
                    /\ ~ptr_eq(s, t)
                    /\ ~can_merge(s, t)
              /\ (s.ogen = t.ogen /\ s.end = t.start) =>
                    /\ ptr_eq(s, t)
                    /\ can_merge(s, t)
                    /\ slice_bytes(blocks, Merged(s, t)).bytes = s.snap \o t.snap
                    /\ (s.obuf \in LiveBufs /\ bufs[s.obuf].gen = s.ogen) =>
                          slice_bytes(blocks, Merged(s, t)).bytes
                              = SubSeq(bufs[s.obuf].hist, s.start + 1, t.end)

\* Two non-empty slices of one buffer over adjacent ranges, minted on either
\* side of a growth step.
C7_Witness ==
    \E j \in LiveSlices, k \in LiveSlices :
        /\ slices[j].obuf # 0
        /\ slices[j].obuf = slices[k].obuf
        /\ slices[j].ogen < slices[k].ogen
        /\ slices[j].end = slices[k].start
        /\ slice_len(slices[j]) > 0
        /\ slice_len(slices[k]) > 0

\* C8. reserve postcondition, as claimed: after every reserve(additional)
\* that returns, capacity() >= len() + additional.
C8_ReservePostcondition ==
    [][\A i \in BufIds, size \in ReserveSizes :
          (Reserve(i, size) /\ last'.res = "ok") =>
              blocks'[bufs'[i].raw].cap >= bufs'[i].len + size]_vars

\* C9. Range errors fail fast, as claimed: slice, slice_str and indexing on
\* a buffer, and slice_clone and slice_str on a slice, panic exactly when
\* the range has start > end or end > len(); and no slice covers an offset
\* beyond the committed bytes of its block.
C9_RangeErrors ==
    [][/\ \A i \in BufIds, range \in Ranges :
             Slice(i, range) =>
                 (last'.res = "panic" <=> ~MathValid(range, bufs[i].len))
       /\ \A j \in SliceIds, range \in Ranges :
             SliceClone(j, range) =>
                 (last'.res = "panic" <=> ~MathValid(range, slice_len(slices[j])))
       /\ \A i \in LiveBufs, range \in Ranges :
             /\ buf_slice_str(blocks, bufs[i], range).res = "panic"
                    <=> ~MathValid(range, bufs[i].len)
             /\ buf_index(blocks, bufs[i], range).res = "panic"
                    <=> ~MathValid(range, bufs[i].len)
       /\ \A j \in LiveSlices, range \in Ranges :
             slice_slice_str(blocks, slices[j], range).res = "panic"
                 <=> ~MathValid(range, slice_len(slices[j]))
       /\ \A j \in SliceIds :
             slices'[j].live => slices'[j].end <= blocks'[slices'[j].raw].committed]_vars

\* C10. slice_clone translation: for a range a..b with a <= b <= s.len(),
\* s.slice_clone(a..b) returns a slice on s's block at s.start + a ..
\* s.start + b whose content is s.as_bytes()[a..b], and leaves s as it was.
C10_SliceCloneTranslation ==
    [][\A j \in SliceIds, range \in Ranges :
          (/\ last'.op = "slice_clone"
           /\ MathValid(range, slice_len(slices[j]))
           /\ SliceClone(j, range)) =>
              LET s == slices[j]
                  a == MathStart(range)
                  b == MathEnd(range, slice_len(s))
              IN  /\ last'.res = "ok"
                  /\ \E k \in SliceIds :
                        /\ ~slices[k].live
                        /\ slices'[k].live
                        /\ ptr_eq(slices'[k], s)
                        /\ slices'[k].start = s.start + a
                        /\ slices'[k].end = s.start + b
                        /\ BytesAfter(slices'[k]) = SubSeq(BytesBefore(s), a + 1, b)
                  /\ slices'[j].raw = s.raw
                  /\ slices'[j].start = s.start
                  /\ slices'[j].end = s.end
                  /\ BytesAfter(slices'[j]) = BytesBefore(s)]_vars

\* A slice_clone has just returned a non-empty part of a slice that starts
\* past offset 0 of its block: the two slices alive are the slice and its
\* clone.
C10_Witness ==
    /\ last.op = "slice_clone"
    /\ last.res = "ok"
    /\ \A j \in SliceIds :
          /\ slices[j].live
          /\ slices[j].start > 0
          /\ slice_len(slices[j]) > 0
    /\ \E j \in SliceIds, k \in SliceIds :
          /\ ptr_eq(slices[j], slices[k])
          /\ slices[k].start > slices[j].start

\* C5. Concurrent reader/writer: in every interleaving of the writer's and
\* the reader's steps, what the reader has read of b or of a clone of b is
\* the content that slice had when minted, every slice still reads as when
\* minted, the reader's next byte is never the byte the writer writes next,
\* and once the writer is done its buffer is the concatenation of its pushes.
C5_ConcurrentReaderWriter ==
    /\ th.rpc \in {"read_b", "read_c"} =>
          /\ th.rk = Len(th.racc)
          /\ th.racc = SubSeq(ReaderSlice.snap, 1, th.rk)
    /\ \A j \in LiveSlices :
          /\ Content(j).res = "ok"
          /\ Content(j).bytes = slices[j].snap
    /\ slices[SliceB].snap = SubSeq(bufs[WriterBuf].hist, 1, slices[SliceB].end)
    /\ (th.wpc = "write" /\ th.wk < Len(th.wbs) /\ th.rpc \in {"read_b", "read_c"}
           /\ th.rk < slice_len(ReaderSlice))
          => WriterTarget # ReaderTarget
    /\ th.wpc \in {"idle", "done"} =>
          /\ bufs[WriterBuf].len = Len(bufs[WriterBuf].hist)
          /\ as_bytes(bufs[WriterBuf]).res = "ok"
          /\ as_bytes(bufs[WriterBuf]).bytes = bufs[WriterBuf].hist

\* Both threads are done; the reader has read b's block while the writer was
\* in the middle of writing into that same block; the writer pushed.
C5_Witness ==
    /\ th.wpc = "done"
    /\ th.rpc = "done"
    /\ th.overlap
    /\ bufs[WriterBuf].len = MaxLen
    /\ bufs[WriterBuf].len > slices[SliceB].end

\* C11. Equality is by content, not identity: two live slices compare equal
\* exactly when the bytes they were minted over are equal, whatever their
\* blocks and offsets; two slices of the same range of one buffer, minted on
\* either side of a growth step, compare equal and are not ptr_eq.
C11_EqualityByContent ==
    \A j \in LiveSlices, k \in LiveSlices :
        /\ eq(blocks, slices[j], slices[k]) <=> slices[j].snap = slices[k].snap
        /\ (/\ slices[j].obuf # 0
            /\ slices[j].obuf = slices[k].obuf
            /\ slices[j].ogen # slices[k].ogen
            /\ slices[j].start = slices[k].start
            /\ slices[j].end = slices[k].end)
               => /\ eq(blocks, slices[j], slices[k])
                  /\ ~ptr_eq(slices[j], slices[k])

\* Two slices of the same non-empty range of one buffer, one minted before
\* a growth step and one after it.
C11_Witness ==
    \E j \in LiveSlices, k \in LiveSlices :
        /\ slices[j].obuf # 0
        /\ slices[j].obuf = slices[k].obuf
        /\ slices[j].ogen # slices[k].ogen
        /\ slices[j].start = slices[k].start
        /\ slices[j].end = slices[k].end
        /\ slice_len(slices[j]) > 0

\* C12. Serialization round trip: deserializing the serialization of a
\* live slice s, in the human-readable form and in the binary form, returns
\* a slice with the content of s, at 0 .. s.len() of a block allocated by
\* the call and held by that slice alone, and leaves s as it was; and a
\* slice on a private block reads as when it was made whatever is done
\* after.
C12_SerdeRoundTrip ==
    /\ [](\A j \in LiveSlices :
             slices[j].obuf = 0 =>
                 /\ Content(j).res = "ok"
                 /\ Content(j).bytes = slices[j].snap
                 /\ \A i \in LiveBufs : bufs[i].raw # slices[j].raw)
    /\ [][\A j \in SliceIds, human_readable \in BOOLEAN :
             (/\ last'.op = "deserialize"
              /\ slices[j].live
              /\ Deserialize(human_readable,
                             serialize(blocks, slices[j], human_readable))) =>
                 LET s == slices[j]
                 IN  /\ last'.res = "ok"
                     /\ \E k \in SliceIds :
                           /\ ~slices[k].live
                           /\ slices'[k].live
                           /\ BytesAfter(slices'[k]) = BytesBefore(s)
                           /\ ~ptr_eq(slices'[k], s)
                           /\ slices'[k].start = 0
                           /\ slices'[k].end = slice_len(s)
                           /\ ~blocks[slices'[k].raw].live
                           /\ blocks'[slices'[k].raw].rc = 1
                     /\ slices'[j] = s
                     /\ BytesAfter(s) = BytesBefore(s)]_vars

\* A deserialize has just returned a copy of a non-empty slice that starts
\* past offset 0 of a buffer's block.
C12_Witness ==
    /\ last.op = "deserialize"
    /\ last.res = "ok"
    /\ \E j \in LiveSlices, k \in LiveSlices :
          /\ slices[j].obuf # 0
          /\ slices[j].start > 0
          /\ slice_len(slices[j]) > 0
          /\ slices[k].obuf = 0
          /\ slices[k].start = 0
          /\ ~ptr_eq(slices[j], slices[k])
          /\ eq(blocks, slices[j], slices[k])

\* C13. to_slice: the slice to_slice returns is over 0 .. len() of the
\* buffer's current block, its content is the buffer's as_bytes() before
\* the call, it is ptr_eq to every slice minted from the buffer since its
\* last growth step, and the call allocates, frees and copies nothing: the
\* heap, reference counts included, is as before.
C13_ToSlice ==
    [][\A i \in BufIds :
          (last'.op = "to_slice" /\ ToSlice(i)) =>
              /\ last'.res = "ok"
              /\ bufs'[i].st = "gone"
              /\ blocks' = blocks
              /\ \E k \in SliceIds :
                    /\ ~slices[k].live
                    /\ slices'[k].live
                    /\ slices'[k].raw = bufs[i].raw
                    /\ slices'[k].start = 0
                    /\ slices'[k].end = bufs[i].len
                    /\ as_bytes(bufs[i]).res = "ok"
                    /\ BytesAfter(slices'[k]) = as_bytes(bufs[i]).bytes
                    /\ \A j \in LiveSlices :
                          (slices[j].obuf = i /\ slices[j].ogen = bufs[i].gen)
                              => /\ ptr_eq(slices'[k], slices'[j])
                                 /\ slices'[j] = slices[j]]_vars

\* A to_slice has just consumed a buffer with bytes in it, from which a
\* slice had been minted since its last growth step: the two slices share
\* the block, whose count is two.
C13_Witness ==
    /\ last.op = "to_slice"
    /\ \E j \in LiveSlices, k \in LiveSlices :
          /\ j # k
          /\ slices[j].obuf = slices[k].obuf
          /\ bufs[slices[k].obuf].st = "gone"
          /\ slices[j].start > 0
          /\ slices[k].start = 0
          /\ slices[k].end > slices[j].start
          /\ ptr_eq(slices[j], slices[k])
          /\ blocks[slices[k].raw].rc = 2

\* The buffer a constructor call is about to make.
NextBuf == MinOf(FreshBufs)

\* C14, as claimed. Construction: new() makes a buffer of length 0 on a
\* block of capacity MIN_CAPACITY, and with_capacity(n) a buffer of length 0
\* on a block of capacity n.
C14_Construction ==
    [][/\ (last'.op = "new" /\ New) =>
             /\ bufs'[NextBuf].st = "live"
             /\ bufs'[NextBuf].len = 0
             /\ blocks'[bufs'[NextBuf].raw].cap = MIN_CAPACITY
       /\ \A n \in Caps :
             (last'.op = "with_capacity" /\ last'.res = "ok" /\ WithCapacity(n)) =>
                 /\ bufs'[NextBuf].st = "live"
                 /\ bufs'[NextBuf].len = 0
                 /\ blocks'[bufs'[NextBuf].raw].cap = n]_vars

\* C14, amended. Construction: new() makes a buffer of length 0 on a block
\* of capacity 0, and with_capacity(n), when it returns, a buffer of length
\* 0 on a block of capacity n; the block is allocated by the call and held
\* by the buffer alone.
C14_ConstructionAmended ==
    [][/\ (last'.op = "new" /\ New) =>
             /\ last'.res = "ok"
             /\ bufs'[NextBuf].st = "live"
             /\ bufs'[NextBuf].len = 0
             /\ ~blocks[bufs'[NextBuf].raw].live
             /\ blocks'[bufs'[NextBuf].raw].rc = 1
             /\ blocks'[bufs'[NextBuf].raw].cap = 0
       /\ \A n \in Caps :
             (last'.op = "with_capacity" /\ last'.res = "ok" /\ WithCapacity(n)) =>
                 /\ bufs'[NextBuf].st = "live"
                 /\ bufs'[NextBuf].len = 0
                 /\ ~blocks[bufs'[NextBuf].raw].live
                 /\ blocks'[bufs'[NextBuf].raw].rc = 1
                 /\ blocks'[bufs'[NextBuf].raw].cap = n]_vars

\* new() has just made a second buffer, of capacity 0, next to a buffer
\* that has grown to MIN_CAPACITY.
C14_Witness ==
    /\ last.op = "new"
    /\ last.res = "ok"
    /\ ncalls > 0
    /\ \E i \in LiveBufs, j \in LiveBufs :
          /\ bufs[i].len > 0
          /\ capacity(bufs[i]) = MIN_CAPACITY
          /\ bufs[j].len = 0
          /\ capacity(bufs[j]) = 0

\* c is the smallest base * 2^k, k >= 0, that is at least target.
SmallestDoubling(c, base, target) ==
    \E k \in 0 .. WordBits :
        /\ c = base * Pow2(k)
        /\ c >= target
        /\ k > 0 => base * Pow2(k - 1) < target

\* The capacity growth starts its doubling from, as the claim has it and as
\* the amended claim has it.
ClaimedBase(cap) == Max(MIN_CAPACITY, cap)
AmendedBase(cap) == Max(MIN_CAPACITY, 2 * cap)

\* A growth step from capacity cap at length len for `requested` more bytes
\* went to capacity c.
ClaimedGrowth(c, cap, target) ==
    target > cap /\ SmallestDoubling(c, ClaimedBase(cap), target)

AmendedGrowth(c, cap, target) ==
    target > cap /\ SmallestDoubling(c, AmendedBase(cap), target)

\* C15, as claimed. Growth formula: a growth step of reserve, push_slice or
\* push takes the capacity to the smallest max(MIN_CAPACITY, capacity) * 2^k
\* that is at least len + requested.
C15_GrowthFormula ==
    [][/\ \A size \in GrowthSizes :
             (/\ last'.grew
              /\ last'.op = "reserve"
              /\ ReservePlan(bufs[1].len, capacity(bufs[1]), size).cap
                     = capacity(bufs[1])'
              /\ Reserve(1, size)) =>
                 ClaimedGrowth(capacity(bufs[1])', capacity(bufs[1]),
                               bufs[1].len + size)
       /\ \A bs \in ByteSeqs(0, 2) :
             (last'.grew /\ last'.op = "push_slice" /\ PushSlice(1, bs)) =>
                 ClaimedGrowth(capacity(bufs[1])', capacity(bufs[1]),
                               bufs[1].len + Len(bs))
       /\ \A byte \in Bytes :
             (last'.grew /\ last'.op = "push" /\ Push(1, byte)) =>
                 ClaimedGrowth(capacity(bufs[1])', capacity(bufs[1]),
                               bufs[1].len + 1)]_vars

\* C15, amended. Growth formula: a growth step of reserve, push_slice or
\* push takes the capacity to the smallest max(MIN_CAPACITY, 2 * capacity)
\* * 2^k, k >= 0, that is at least len + requested.
C15_GrowthFormulaAmended ==
    [][/\ \A size \in GrowthSizes :
             (/\ last'.grew
              /\ last'.op = "reserve"
              /\ ReservePlan(bufs[1].len, capacity(bufs[1]), size).cap
                     = capacity(bufs[1])'
              /\ Reserve(1, size)) =>
                 AmendedGrowth(capacity(bufs[1])', capacity(bufs[1]),
                               bufs[1].len + size)
       /\ \A bs \in ByteSeqs(0, 2) :
             (last'.grew /\ last'.op = "push_slice" /\ PushSlice(1, bs)) =>
                 AmendedGrowth(capacity(bufs[1])', capacity(bufs[1]),
                               bufs[1].len + Len(bs))
       /\ \A byte \in Bytes :
             (last'.grew /\ last'.op = "push" /\ Push(1, byte)) =>
                 AmendedGrowth(capacity(bufs[1])', capacity(bufs[1]),
                               bufs[1].len + 1)]_vars

\* A growth step has just taken a buffer from a capacity strictly between
\* 16 and 32 to a capacity that is no MIN_CAPACITY * 2^k.
C15_Witness ==
    /\ last.grew
    /\ capacity(bufs[1]) > MIN_CAPACITY
    /\ capacity(bufs[1]) % MIN_CAPACITY # 0
    /\ capacity(bufs[1]) < 2 * MIN_CAPACITY

\* C16. Termination, as claimed: every call returns or fails; no call is
\* left running in the doubling loop of reserve.
C16_Termination == last.res \in {"ok", "err", "panic"}

\* C17. Buffer bounds invariant: every live buffer has len <= capacity of
\* its current block, no byte of a block was ever written at or past the
\* block's capacity, and over every push / push_slice step the bytes of the
\* buffer's block that the write has changed lie at offsets in [old len,
\* capacity).
C17_BufferBounds ==
    /\ [](/\ \A i \in LiveBufs : bufs[i].len <= capacity(bufs[i])
          /\ \A b \in BlockIds : blocks[b].live => Len(blocks[b].mem) <= blocks[b].cap)
    /\ [][\A i \in BufIds :
             (/\ last'.op \in {"push", "push_slice"}
              /\ last'.res = "ok"
              /\ bufs[i].st = "live"
              /\ bufs'[i] # bufs[i]) =>
                 LET n == bufs'[i].len - bufs[i].len
                     r == reserve(blocks, bufs[i], n)
                     b == bufs'[i].raw
                 IN  /\ r.res = "ok"
                     /\ r.buf.raw = b
                     /\ \A o \in 0 .. blocks'[b].cap + n :
                           ReadAt(blocks'[b], o, o + 1) # ReadAt(r.blks[b], o, o + 1)
                               => /\ bufs[i].len <= o
                                  /\ o < bufs[i].len + n
                                  /\ o < blocks'[b].cap]_vars

\* A buffer is full: its len equals the capacity of its block, with bytes
\* in it, after a push.
C17_Witness ==
    /\ last.op \in {"push", "push_slice"}
    /\ last.res = "ok"
    /\ \E i \in LiveBufs :
          /\ bufs[i].len > 0
          /\ bufs[i].len = capacity(bufs[i])

\* C18. Slice range invariant: every live slice is on an allocated block
\* with 0 <= start <= end <= the block's capacity and end <= the number of
\* bytes committed in the block; when the block is a live buffer's current
\* block, end <= that buffer's len(), and the buffer's next write offset is
\* outside start .. end-1.
C18_SliceRange ==
    \A j \in LiveSlices :
        LET s == slices[j]
        IN  /\ blocks[s.raw].live
            /\ 0 <= s.start
            /\ s.start <= s.end
            /\ s.end <= blocks[s.raw].cap
            /\ s.end <= blocks[s.raw].committed
            /\ \A i \in LiveBufs :
                  bufs[i].raw = s.raw =>
                      /\ s.end <= bufs[i].len
                      /\ WriteOffset(bufs[i]) \notin s.start .. s.end - 1

\* A slice that ends where its buffer's committed bytes end, on the
\* buffer's current block, with room left in the block: the next write
\* lands right after the slice.
C18_Witness ==
    \E j \in LiveSlices, i \in LiveBufs :
        /\ bufs[i].raw = slices[j].raw
        /\ slices[j].start > 0
        /\ slices[j].end > slices[j].start
        /\ slices[j].end = bufs[i].len
        /\ bufs[i].len < capacity(bufs[i])

\* C19. reserve frame: a reserve that returns leaves len() and as_bytes()
\* as they were; when len() + additional <= capacity() it leaves the whole
\* state as it was, the buffer's block and capacity included, and a second
\* call does the same; when it grows, every live slice keeps its block,
\* start, end and content, and the block the buffer left is as it was if a
\* slice still holds it.
C19_ReserveFrame ==
    [][\A i \in BufIds, size \in ReserveSizes :
          (last'.op = "reserve" /\ last'.res = "ok" /\ Reserve(i, size)) =>
              /\ bufs'[i].len = bufs[i].len
              /\ as_bytes(bufs[i])' = as_bytes(bufs[i])
              /\ as_bytes(bufs[i]).res = "ok"
              /\ bufs[i].len + size <= capacity(bufs[i]) =>
                    /\ ~last'.grew
                    /\ capacity(bufs[i])' = capacity(bufs[i])
                    /\ bufs'[i].raw = bufs[i].raw
                    /\ <<blocks', bufs', slices'>> = <<blocks, bufs, slices>>
                    /\ reserve(blocks', bufs'[i], size).blks = blocks'
                    /\ reserve(blocks', bufs'[i], size).buf = bufs'[i]
              /\ last'.grew =>
                    /\ bufs'[i].raw # bufs[i].raw
                    /\ \A j \in LiveSlices :
                          /\ slices'[j] = slices[j]
                          /\ BytesAfter(slices[j]) = BytesBefore(slices[j])
                          /\ blocks'[slices[j].raw].live
                          /\ blocks'[slices[j].raw].mem = blocks[slices[j].raw].mem]_vars

\* A reserve has just grown a buffer from which a non-empty slice had been
\* minted: the slice is on the block the buffer left.
C19_Witness ==
    /\ last.op = "reserve"
    /\ last.res = "ok"
    /\ last.grew
    /\ \E j \in LiveSlices :
          /\ slices[j].obuf # 0
          /\ bufs[slices[j].obuf].st = "live"
          /\ bufs[slices[j].obuf].raw # slices[j].raw
          /\ slice_len(slices[j]) > 0

\* C20. Clone independence: clone returns a buffer with the len(),
\* capacity() and as_bytes() of the original on a block allocated by the
\* call and held by the clone alone, and leaves the original, the slices
\* and every other block as they were; a push, push_slice or reserve on one
\* buffer leaves every other buffer's len() and as_bytes() and every
\* slice's block, range and content as they were; and slices minted from
\* different buffers are never ptr_eq nor mergeable.
C20_CloneIndependence ==
    /\ [](/\ \A i \in LiveBufs, k \in LiveBufs : i # k => bufs[i].raw # bufs[k].raw
          /\ \A j \in LiveSlices, k \in LiveSlices :
                (slices[j].obuf # 0 /\ slices[k].obuf # 0
                     /\ slices[j].obuf # slices[k].obuf)
                    => /\ ~ptr_eq(slices[j], slices[k])
                       /\ ~can_merge(slices[j], slices[k]))
    /\ [][/\ \A i \in BufIds :
                (last'.op = "clone" /\ CloneBuf(i)) =>
                    /\ bufs'[NextBuf].st = "live"
                    /\ bufs'[NextBuf].len = bufs[i].len
                    /\ blocks'[bufs'[NextBuf].raw].cap = capacity(bufs[i])
                    /\ RawBytes_slice(blocks'[bufs'[NextBuf].raw],
                                      [s |-> Unb, e |-> Exc(bufs'[NextBuf].len)])
                           = as_bytes(bufs[i])
                    /\ as_bytes(bufs[i]).res = "ok"
                    /\ ~blocks[bufs'[NextBuf].raw].live
                    /\ blocks'[bufs'[NextBuf].raw].rc = 1
                    /\ bufs'[i] = bufs[i]
                    /\ slices' = slices
                    /\ \A b \in BlockIds : blocks[b].live => blocks'[b] = blocks[b]
          /\ (last'.op \in {"push", "push_slice", "reserve"}) =>
                /\ \E i \in BufIds :
                      \A k \in LiveBufs \ {i} :
                          /\ bufs'[k] = bufs[k]
                          /\ as_bytes(bufs[k])' = as_bytes(bufs[k])
                /\ \A j \in LiveSlices :
                      /\ slices'[j] = slices[j]
                      /\ BytesAfter(slices[j]) = BytesBefore(slices[j])]_vars

\* A clone has just copied a buffer that has bytes in it and a non-empty
\* slice minted from it.
C20_Witness ==
    /\ last.op = "clone"
    /\ \E i \in LiveBufs, k \in LiveBufs, j \in LiveSlices :
          /\ i # k
          /\ bufs[i].len > 0
          /\ bufs[i].hist = bufs[k].hist
          /\ as_bytes(bufs[i]) = as_bytes(bufs[k])
          /\ capacity(bufs[i]) = capacity(bufs[k])
          /\ bufs[i].raw # bufs[k].raw
          /\ slices[j].obuf = i
          /\ slices[j].raw = bufs[i].raw
          /\ slice_len(slices[j]) > 0

====
